---- MODULE Spec2Model ----
(***************************************************************************)
(* ZenChain (src/ZC.py): an in-memory ledger of hash-linked, mined blocks, *)
(* a pending transaction pool and an NFT registry.                         *)
(*                                                                         *)
(* Modelling conventions                                                   *)
(*  - A Python number is a record [f, v]: f says whether it is a float, v  *)
(*    is its value in model units.  int arithmetic is exact; as soon as a  *)
(*    float takes part the result is rounded to MantissaBits significant   *)
(*    bits, ties to even, as IEEE-754 does with 53 bits.                   *)
(*  - A hex digest is a record [lead, pre]: lead is the sequence of its    *)
(*    first HashLead characters (digits 0..HexBase-1, a deterministic mix  *)
(*    of the hashed fields), pre stands for the remaining characters and   *)
(*    is the hashed document itself, so that the digest is injective.  The *)
(*    one-character string "0" is [lead |-> <<0>>, pre |-> <<>>].          *)
(*  - A Transaction object carries its identity oid, which is no field of  *)
(*    the Python object: two objects with equal fields stay two objects,   *)
(*    and to_dict() copies the fields without the identity.                *)
(*  - time.time() reads the variable now, a clock fine enough to give     *)
(*    each read a later value than the read before it.                     *)
(*  - main() is one thread that makes one call at a time: there every      *)
(*    method is one action, threads stays at rest and atomic is TRUE.      *)
(*    Callers on several threads are modelled step by step, each step a    *)
(*    stretch of a method between two accesses of shared state.            *)
(***************************************************************************)
EXTENDS Integers, Sequences, FiniteSets, TLC

VARIABLES
    chain,                  \* self.chain
    pending_transactions,   \* self.pending_transactions
    nft_collections,        \* self.nft_collections
    now,                    \* what the next time.time() returns
    next_oid,               \* identity of the next Transaction object
    ret,                    \* what the last call returned
    tamper,                 \* the out-of-band mutation done so far, if any
    threads,                \* each calling thread: where it is in its call
    atomic                  \* whether the callers run one call at a time

vars == <<chain, pending_transactions, nft_collections, now, next_oid, ret, tamper,
          threads, atomic>>

(* ------------------------------ bounds --------------------------------- *)
\* blocks in the chain, genesis included
MaxChain == 3
\* entries submitted by callers (payments and NFT actions), pending or committed
MaxTx == 2
\* entries submitted by the callers of the registry
MaxAssetTx == 3
\* calls that one thread makes
MaxCalls == 2
\* significant bits of a float (53 in CPython)
MantissaBits == 5
\* digits of the digest alphabet (16 for a hex digest)
HexBase == 4

(* --------------------------- program constants ------------------------- *)
difficulty == 2
mining_reward == 100
\* characters of a digest that the model keeps as digits
HashLead == difficulty

None == "None"
Addresses == {"Alice", "Bob"}
NftIds == {"X"}
Threads == {1, 2}
AssetIds == {"X", "Y"}
NftNames == {"n1", "n2"}
NftDescriptions == {"d"}

(* ------------------------------ numbers -------------------------------- *)
Int_(n) == [f |-> FALSE, v |-> n]
Float_(n) == [f |-> TRUE, v |-> n]

Abs(n) == IF n < 0 THEN -n ELSE n

RECURSIVE Pow2(_)
Pow2(n) == IF n = 0 THEN 1 ELSE 2 * Pow2(n - 1)

\* the spacing of the floats around magnitude a
RECURSIVE Ulp(_)
Ulp(a) == IF a < Pow2(MantissaBits) THEN 1 ELSE 2 * Ulp(a \div 2)

\* round-to-nearest, ties-to-even, of the exact value n
RoundFloat(n) ==
    LET a == Abs(n)
        u == Ulp(a)
        q == a \div u
        r == a % u
        up == (2 * r > u) \/ (2 * r = u /\ q % 2 = 1)
        m == (IF up THEN q + 1 ELSE q) * u
    IN  IF n < 0 THEN -m ELSE m

\* a - b and a + b as Python computes them
NumSub(a, b) ==
    IF a.f \/ b.f
    THEN Float_(RoundFloat(RoundFloat(a.v) - RoundFloat(b.v)))
    ELSE Int_(a.v - b.v)

NumAdd(a, b) ==
    IF a.f \/ b.f
    THEN Float_(RoundFloat(RoundFloat(a.v) + RoundFloat(b.v)))
    ELSE Int_(a.v + b.v)

\* amounts a caller passes: float(input("Amount: "))
Amounts == {Float_(1), Float_(40)}

(* ------------------------------ digests -------------------------------- *)
HashSpace == HexBase * HexBase

\* the first HashLead characters of the digest whose mix is s
LeadChars(s) == <<(s % HashSpace) \div HexBase, s % HexBase>>

HexDigest(s, doc) == [lead |-> LeadChars(s), pre |-> doc]

\* the string "0"
ZeroString == [lead |-> <<0>>, pre |-> <<>>]

\* s[:n]
Prefix(s, n) == SubSeq(s.lead, 1, IF n < Len(s.lead) THEN n ELSE Len(s.lead))

\* '0' * n
Zeros(n) == [i \in 1..n |-> 0]

AddrCode(a) == IF a = None THEN 0 ELSE IF a = "Alice" THEN 1 ELSE 2

(* ---------------------------- Transaction ------------------------------ *)
NoNft == [tag |-> None]
CreateData(id, name, desc) ==
    [action |-> "create", nft_id |-> id, name |-> name, description |-> desc]
TransferData(id) == [action |-> "transfer", nft_id |-> id]

Transaction_calculate_hash(tx) ==
    HexDigest(AddrCode(tx.sender) + 3 * AddrCode(tx.recipient) + tx.amount.v
                + 5 * tx.timestamp,
              [sender |-> tx.sender, recipient |-> tx.recipient,
               amount |-> tx.amount, nft_data |-> tx.nft_data,
               timestamp |-> tx.timestamp])

Transaction(oid, sender, recipient, amount, nft_data, t) ==
    LET fields == [oid |-> oid, sender |-> sender, recipient |-> recipient,
                   amount |-> amount, nft_data |-> nft_data, timestamp |-> t]
    IN  [oid |-> oid, sender |-> sender, recipient |-> recipient,
         amount |-> amount, nft_data |-> nft_data, timestamp |-> t,
         hash |-> Transaction_calculate_hash(fields)]

\* to_dict without the "amount" key
to_dict_no_amount(tx) ==
    [sender |-> tx.sender, recipient |-> tx.recipient,
     nft_data |-> tx.nft_data, timestamp |-> tx.timestamp, hash |-> tx.hash]

to_dict(tx) ==
    [sender |-> tx.sender, recipient |-> tx.recipient, amount |-> tx.amount,
     nft_data |-> tx.nft_data, timestamp |-> tx.timestamp, hash |-> tx.hash]

(* ------------------------------- Block --------------------------------- *)
RECURSIVE SumSeq(_)
SumSeq(s) == IF s = <<>> THEN 0 ELSE Head(s) + SumSeq(Tail(s))

TxMix(tx) == tx.amount.v + tx.hash.lead[1] + tx.hash.lead[2] + AddrCode(tx.recipient)

calculate_hash(b) ==
    LET dicts == [i \in 1..Len(b.transactions) |-> to_dict(b.transactions[i])]
        mix == 7 * b.index + 3 * b.timestamp + SumSeq(b.previous_hash.lead)
                 + SumSeq([i \in 1..Len(b.transactions) |-> TxMix(b.transactions[i])])
                 + b.nonce
    IN  HexDigest(mix,
                  [index |-> b.index, transactions |-> dicts,
                   timestamp |-> b.timestamp, previous_hash |-> b.previous_hash,
                   nonce |-> b.nonce])

Block(index, transactions, timestamp, previous_hash) ==
    LET fields == [index |-> index, transactions |-> transactions,
                   timestamp |-> timestamp, previous_hash |-> previous_hash,
                   nonce |-> 0]
    IN  [index |-> index, transactions |-> transactions, timestamp |-> timestamp,
         previous_hash |-> previous_hash, nonce |-> 0,
         hash |-> calculate_hash(fields)]

\* "if" for "while": one attempt only
mine_block_once(b, d) ==
    IF Prefix(b.hash, d) # Zeros(d)
    THEN LET b1 == [b EXCEPT !.nonce = @ + 1]
         IN  [b1 EXCEPT !.hash = calculate_hash(b1)]
    ELSE b

RECURSIVE mine_block(_, _)
mine_block(b, d) ==
    IF Prefix(b.hash, d) # Zeros(d)
    THEN LET b1 == [b EXCEPT !.nonce = @ + 1]
         IN  mine_block([b1 EXCEPT !.hash = calculate_hash(b1)], d)
    ELSE b

(* ------------------------------ ZenChain ------------------------------- *)
create_genesis_block == Block(0, <<>>, 0, ZeroString)

get_latest_block == chain[Len(chain)]

\* the ledger as constructed
ZenChain_init ==
    /\ chain = <<create_genesis_block>>
    /\ now = 1
    /\ pending_transactions = <<>>
    /\ nft_collections = [k \in {} |-> None]
    /\ next_oid = 1
    /\ ret = None
    /\ tamper = "none"

\* a thread that has made no call yet
AtRest == [pc |-> "idle", calls |-> 0, ret |-> None]

Init ==
    /\ ZenChain_init
    /\ threads = [t \in Threads |-> AtRest]
    /\ atomic = TRUE

RECURSIVE Flatten(_)
Flatten(blocks) ==
    IF blocks = <<>> THEN <<>> ELSE Head(blocks).transactions \o Flatten(Tail(blocks))

Range(s) == {s[i] : i \in 1..Len(s)}

Committed == Flatten(chain)

\* entries submitted by callers so far: every mined block but the last one
\* left one reward behind, and the pool holds the last one's
CallerTxs == Len(Committed) + Len(pending_transactions) - (Len(chain) - 1)

\* the payment objects a caller holds: every one it constructed
CallerPayments ==
    {tx \in Range(Committed) \cup Range(pending_transactions) :
        tx.sender # None /\ tx.nft_data = NoNft}

\* create_transaction refusing a payment of a sender that the committed
\* chain has paid nothing
create_transaction_funded(transaction) ==
    pending_transactions' =
        IF /\ transaction.sender # None
           /\ transaction.amount.v > 0
           /\ \A i \in 1..Len(Committed) :
                 Committed[i].recipient # transaction.sender
        THEN pending_transactions
        ELSE Append(pending_transactions, transaction)

create_transaction(transaction) ==
    pending_transactions' = Append(pending_transactions, transaction)

\* main(), choice "1": a new Transaction is constructed and submitted
CreateTransaction(sender, recipient, amount) ==
    /\ tamper = "none"
    /\ CallerTxs < MaxTx
    /\ create_transaction(Transaction(next_oid, sender, recipient, amount, NoNft, now))
    /\ now' = now + 1
    /\ next_oid' = next_oid + 1
    /\ ret' = None
    /\ UNCHANGED <<chain, nft_collections, tamper, threads, atomic>>

\* create_transaction called again with an object submitted before
ResubmitTransaction(transaction) ==
    /\ tamper = "none"
    /\ CallerTxs < MaxTx
    /\ create_transaction(transaction)
    /\ ret' = None
    /\ UNCHANGED <<chain, nft_collections, now, next_oid, tamper, threads, atomic>>

\* the reward is constructed after the block: the second read of the clock
RewardTx(mining_reward_address) ==
    Transaction(next_oid, None, mining_reward_address, Int_(mining_reward), NoNft,
                now + 1)

\* the new block linked to self.chain[0] instead of the latest block
mine_pending_transactions_genesis_link(mining_reward_address) ==
    LET block == mine_block(Block(Len(chain), pending_transactions, now,
                                  chain[1].hash), difficulty)
    IN  /\ chain' = Append(chain, block)
        /\ pending_transactions' = <<RewardTx(mining_reward_address)>>

\* the new block numbered get_latest_block().index instead of len(self.chain)
mine_pending_transactions_latest_index(mining_reward_address) ==
    LET block == mine_block(Block(get_latest_block.index, pending_transactions, now,
                                  get_latest_block.hash), difficulty)
    IN  /\ chain' = Append(chain, block)
        /\ pending_transactions' = <<RewardTx(mining_reward_address)>>

\* the reward appended to the pool instead of replacing it
mine_pending_transactions_keep_pool(mining_reward_address) ==
    LET block == mine_block(Block(Len(chain), pending_transactions, now,
                                  get_latest_block.hash), difficulty)
    IN  /\ chain' = Append(chain, block)
        /\ pending_transactions' =
             Append(pending_transactions, RewardTx(mining_reward_address))

\* self.chain.insert(0, block) instead of self.chain.append(block)
mine_pending_transactions_insert_front(mining_reward_address) ==
    LET block == mine_block(Block(Len(chain), pending_transactions, now,
                                  get_latest_block.hash), difficulty)
    IN  /\ chain' = <<block>> \o chain
        /\ pending_transactions' = <<RewardTx(mining_reward_address)>>

\* the block built from self.pending_transactions[:-1]
mine_pending_transactions_skip_last(mining_reward_address) ==
    LET taken == SubSeq(pending_transactions, 1, Len(pending_transactions) - 1)
        block == mine_block(Block(Len(chain), taken, now,
                                  get_latest_block.hash), difficulty)
    IN  /\ chain' = Append(chain, block)
        /\ pending_transactions' = <<RewardTx(mining_reward_address)>>

mine_pending_transactions(mining_reward_address) ==
    LET block == mine_block(Block(Len(chain), pending_transactions, now,
                                  get_latest_block.hash), difficulty)
    IN  /\ chain' = Append(chain, block)
        /\ pending_transactions' = <<RewardTx(mining_reward_address)>>

MinePendingTransactions(mining_reward_address) ==
    /\ tamper = "none"
    /\ Len(chain) < MaxChain
    /\ mine_pending_transactions(mining_reward_address)
    /\ now' = now + 2
    /\ next_oid' = next_oid + 1
    /\ ret' = None
    /\ UNCHANGED <<nft_collections, tamper, threads, atomic>>

\* create_nft without the test "nft_id in self.nft_collections"
create_nft_overwrite(owner_address, nft_id, nft_name, nft_description) ==
    /\ nft_collections' =
         [k \in DOMAIN nft_collections \cup {nft_id} |->
             IF k = nft_id
             THEN [owner |-> owner_address, name |-> nft_name,
                   description |-> nft_description, created_at |-> now]
             ELSE nft_collections[k]]
    /\ create_transaction(
         Transaction(next_oid, None, owner_address, Int_(0),
                     CreateData(nft_id, nft_name, nft_description), now + 1))
    /\ now' = now + 2
    /\ next_oid' = next_oid + 1
    /\ ret' = "True"

create_nft(owner_address, nft_id, nft_name, nft_description) ==
    IF nft_id \in DOMAIN nft_collections
    THEN /\ ret' = "False"
         /\ UNCHANGED <<nft_collections, pending_transactions, now, next_oid>>
    ELSE /\ nft_collections' =
              [k \in DOMAIN nft_collections \cup {nft_id} |->
                  IF k = nft_id
                  THEN [owner |-> owner_address, name |-> nft_name,
                        description |-> nft_description, created_at |-> now]
                  ELSE nft_collections[k]]
         /\ create_transaction(
              Transaction(next_oid, None, owner_address, Int_(0),
                          CreateData(nft_id, nft_name, nft_description), now + 1))
         /\ now' = now + 2
         /\ next_oid' = next_oid + 1
         /\ ret' = "True"

CreateNft(owner_address, nft_id, nft_name, nft_description) ==
    /\ tamper = "none"
    /\ CallerTxs < MaxTx
    /\ create_nft(owner_address, nft_id, nft_name, nft_description)
    /\ UNCHANGED <<chain, tamper, threads, atomic>>

\* transfer_nft without the test of the registered owner
transfer_nft_any_sender(sender, recipient, nft_id) ==
    IF nft_id \notin DOMAIN nft_collections
    THEN /\ ret' = "False"
         /\ UNCHANGED <<nft_collections, pending_transactions, now, next_oid>>
    ELSE /\ nft_collections' = [nft_collections EXCEPT ![nft_id].owner = recipient]
         /\ create_transaction(
              Transaction(next_oid, sender, recipient, Int_(0),
                          TransferData(nft_id), now))
         /\ now' = now + 1
         /\ next_oid' = next_oid + 1
         /\ ret' = "True"

\* transfer_nft recording Transaction(recipient, sender, ...)
transfer_nft_swapped_record(sender, recipient, nft_id) ==
    IF nft_id \notin DOMAIN nft_collections
    THEN /\ ret' = "False"
         /\ UNCHANGED <<nft_collections, pending_transactions, now, next_oid>>
    ELSE IF nft_collections[nft_id].owner # sender
    THEN /\ ret' = "False"
         /\ UNCHANGED <<nft_collections, pending_transactions, now, next_oid>>
    ELSE /\ nft_collections' = [nft_collections EXCEPT ![nft_id].owner = recipient]
         /\ create_transaction(
              Transaction(next_oid, recipient, sender, Int_(0),
                          TransferData(nft_id), now))
         /\ now' = now + 1
         /\ next_oid' = next_oid + 1
         /\ ret' = "True"

\* transfer_nft without the call of create_transaction
transfer_nft_no_record(sender, recipient, nft_id) ==
    IF nft_id \notin DOMAIN nft_collections
    THEN /\ ret' = "False"
         /\ UNCHANGED <<nft_collections, pending_transactions, now, next_oid>>
    ELSE IF nft_collections[nft_id].owner # sender
    THEN /\ ret' = "False"
         /\ UNCHANGED <<nft_collections, pending_transactions, now, next_oid>>
    ELSE /\ nft_collections' = [nft_collections EXCEPT ![nft_id].owner = recipient]
         /\ ret' = "True"
         /\ UNCHANGED <<pending_transactions, now, next_oid>>

transfer_nft(sender, recipient, nft_id) ==
    IF nft_id \notin DOMAIN nft_collections
    THEN /\ ret' = "False"
         /\ UNCHANGED <<nft_collections, pending_transactions, now, next_oid>>
    ELSE IF nft_collections[nft_id].owner # sender
    THEN /\ ret' = "False"
         /\ UNCHANGED <<nft_collections, pending_transactions, now, next_oid>>
    ELSE /\ nft_collections' = [nft_collections EXCEPT ![nft_id].owner = recipient]
         /\ create_transaction(
              Transaction(next_oid, sender, recipient, Int_(0),
                          TransferData(nft_id), now))
         /\ now' = now + 1
         /\ next_oid' = next_oid + 1
         /\ ret' = "True"

TransferNft(sender, recipient, nft_id) ==
    /\ tamper = "none"
    /\ CallerTxs < MaxTx
    /\ transfer_nft(sender, recipient, nft_id)
    /\ UNCHANGED <<chain, tamper, threads, atomic>>

\* main(), choices "5" and "6", with room for MaxAssetTx entries
CreateAsset(owner_address, nft_id, nft_name, nft_description) ==
    /\ tamper = "none"
    /\ CallerTxs < MaxAssetTx
    /\ create_nft(owner_address, nft_id, nft_name, nft_description)
    /\ UNCHANGED <<chain, tamper, threads, atomic>>

TransferAsset(sender, recipient, nft_id) ==
    /\ tamper = "none"
    /\ CallerTxs < MaxAssetTx
    /\ transfer_nft(sender, recipient, nft_id)
    /\ UNCHANGED <<chain, tamper, threads, atomic>>

(* ------------------------------- callers ------------------------------- *)
\* a thread that is in no call
Resting(t) == threads[t].pc = "idle"

\* thread t may begin a call: with one mutual-exclusion domain (atomic) only
\* while no other call is running
MayBegin(t) ==
    /\ tamper = "none"
    /\ Resting(t)
    /\ threads[t].calls < MaxCalls
    /\ atomic => \A u \in Threads : Resting(u)

\* thread t back in no call, its call having returned value
Returned(t, value) ==
    [pc |-> "idle", calls |-> threads[t].calls + 1, ret |-> value]

\* block.nonce += 2 in the loop of mine_block
mine_block_step_by_two(b, d) ==
    IF Prefix(b.hash, d) # Zeros(d)
    THEN LET b1 == [b EXCEPT !.nonce = b.nonce + 2]
         IN  [b1 EXCEPT !.hash = calculate_hash(b1)]
    ELSE b

\* one test of the loop condition of mine_block, and the loop body if it holds
mine_block_step(b, d) ==
    IF Prefix(b.hash, d) # Zeros(d)
    THEN LET b1 == [b EXCEPT !.nonce = b.nonce + 1]
         IN  [b1 EXCEPT !.hash = calculate_hash(b1)]
    ELSE b

\* the blocks a caller constructs to mine them
MineBlocks ==
    {Block(index, transactions, 0, ZeroString) :
        index \in 0..1,
        transactions \in {<<>>, <<Transaction(1, None, "Bob", Int_(mining_reward),
                                              NoNft, 1)>>}}

\* thread t calls b.mine_block(d)
MineBlockCall(t, b, d) ==
    /\ MayBegin(t)
    /\ threads' = [threads EXCEPT ![t] =
          [pc |-> "mine_block", calls |-> threads[t].calls, ret |-> threads[t].ret,
           given |-> b, block |-> b, difficulty |-> d]]
    /\ UNCHANGED <<chain, pending_transactions, nft_collections, now, next_oid,
                   ret, tamper, atomic>>

\* thread t in mine_block: the loop test, then the loop body or the return
MineBlockStep(t) ==
    /\ threads[t].pc = "mine_block"
    /\ LET b == threads[t].block
           d == threads[t].difficulty
       IN  IF Prefix(b.hash, d) # Zeros(d)
           THEN /\ threads' = [threads EXCEPT ![t].block = mine_block_step(b, d)]
                /\ ret' = ret
           ELSE /\ threads' = [threads EXCEPT ![t] =
                     [pc |-> "idle", calls |-> threads[t].calls + 1, ret |-> None,
                      given |-> threads[t].given, block |-> b, difficulty |-> d]]
                /\ ret' = None
    /\ UNCHANGED <<chain, pending_transactions, nft_collections, now, next_oid,
                   tamper, atomic>>

\* thread t makes the next call of the asset lifecycle: two creations of "X"
\* and two transfers of it by its first owner
LifecycleStep(t) ==
    /\ tamper = "none"
    /\ threads[t].pc = "lifecycle"
    /\ Len(threads[t].rets) < 4
    /\ LET call == threads[t]
       IN  CASE Len(call.rets) = 0 -> create_nft(call.owner, "X", call.name, "d")
             [] Len(call.rets) = 1 -> create_nft(call.owner2, "X", call.name2, "d")
             [] Len(call.rets) = 2 -> transfer_nft(call.owner, call.recipient, "X")
             [] Len(call.rets) = 3 -> transfer_nft(call.owner, call.someoneElse, "X")
    /\ threads' = [threads EXCEPT ![t].rets = Append(@, ret'),
                                  ![t].calls = @ + 1,
                                  ![t].ret = ret']
    /\ UNCHANGED <<chain, tamper, atomic>>

\* the new block linked to self.chain[0] instead of the latest block
build_block_genesis_link ==
    mine_block(Block(Len(chain), pending_transactions, now, chain[1].hash),
               difficulty)

\* mine_pending_transactions, the block constructed and mined
build_block ==
    mine_block(Block(Len(chain), pending_transactions, now, get_latest_block.hash),
               difficulty)

\* thread t enters mine_pending_transactions: it reads the length of the
\* chain, the pool and the hash of the latest block, and mines its block.
\* The block holds the very list that is the pool (live) until the pool is
\* assigned a new list.
MineBuild(t, mining_reward_address) ==
    /\ MayBegin(t)
    /\ Len(chain) + Cardinality({u \in Threads : threads[u].pc = "append"}) < MaxChain
    /\ threads' = [threads EXCEPT ![t] =
          [pc |-> "append", calls |-> threads[t].calls, ret |-> threads[t].ret,
           address |-> mining_reward_address, block |-> build_block, live |-> TRUE]]
    /\ now' = now + 1
    /\ UNCHANGED <<chain, pending_transactions, nft_collections, next_oid, ret,
                   tamper, atomic>>

\* self.chain.append(block)
MineAppend(t) ==
    /\ threads[t].pc = "append"
    /\ chain' = Append(chain, threads[t].block)
    /\ threads' = [threads EXCEPT ![t] =
          [pc |-> "reset", calls |-> threads[t].calls, ret |-> threads[t].ret,
           address |-> threads[t].address, live |-> threads[t].live,
           pos |-> Len(chain) + 1]]
    /\ UNCHANGED <<pending_transactions, nft_collections, now, next_oid, ret,
                   tamper, atomic>>

\* self.pending_transactions = [Transaction(None, address, reward)], and the
\* return: no block holds the list that is the pool any more
MineReset(t) ==
    /\ threads[t].pc = "reset"
    /\ pending_transactions' =
          <<Transaction(next_oid, None, threads[t].address, Int_(mining_reward),
                        NoNft, now)>>
    /\ threads' = [u \in Threads |->
                      IF u = t THEN Returned(t, None)
                      ELSE IF "live" \in DOMAIN threads[u]
                      THEN [threads[u] EXCEPT !.live = FALSE]
                      ELSE threads[u]]
    /\ now' = now + 1
    /\ next_oid' = next_oid + 1
    /\ ret' = None
    /\ UNCHANGED <<chain, nft_collections, tamper, atomic>>

\* thread t enters transfer_nft: the two tests, and the return of False
TransferCheck(t, sender, recipient, nft_id) ==
    /\ MayBegin(t)
    /\ IF \/ nft_id \notin DOMAIN nft_collections
          \/ nft_collections[nft_id].owner # sender
       THEN /\ threads' = [threads EXCEPT ![t] = Returned(t, "False")]
            /\ ret' = "False"
       ELSE /\ threads' = [threads EXCEPT ![t] =
                 [pc |-> "transfer", calls |-> threads[t].calls,
                  ret |-> threads[t].ret, sender |-> sender,
                  recipient |-> recipient, nft_id |-> nft_id]]
            /\ ret' = ret
    /\ UNCHANGED <<chain, pending_transactions, nft_collections, now, next_oid,
                   tamper, atomic>>

\* the rest of transfer_nft: the owner is set, the transaction is appended
\* to the pool, and so to every block that holds the same list
TransferAct(t) ==
    /\ threads[t].pc = "transfer"
    /\ LET call == threads[t]
           nft_transaction ==
               Transaction(next_oid, call.sender, call.recipient, Int_(0),
                           TransferData(call.nft_id), now)
           Holds(u) == u # t /\ "live" \in DOMAIN threads[u] /\ threads[u].live
       IN  /\ nft_collections' =
                [nft_collections EXCEPT ![call.nft_id].owner = call.recipient]
           /\ create_transaction(nft_transaction)
           /\ chain' = [i \in 1..Len(chain) |->
                           IF \E u \in Threads :
                                 Holds(u) /\ threads[u].pc = "reset" /\ threads[u].pos = i
                           THEN [chain[i] EXCEPT
                                    !.transactions = Append(@, nft_transaction)]
                           ELSE chain[i]]
           /\ threads' = [u \in Threads |->
                             IF u = t THEN Returned(t, "True")
                             ELSE IF Holds(u) /\ threads[u].pc = "append"
                             THEN [threads[u] EXCEPT
                                      !.block.transactions = Append(@, nft_transaction)]
                             ELSE threads[u]]
    /\ now' = now + 1
    /\ next_oid' = next_oid + 1
    /\ ret' = "True"
    /\ UNCHANGED <<tamper, atomic>>

(* ------------------------------ queries -------------------------------- *)
RECURSIVE balance_loop(_, _, _)
balance_loop(txs, address, balance) ==
    IF txs = <<>> THEN balance
    ELSE LET trans == Head(txs)
             b1 == IF trans.sender = address
                   THEN NumSub(balance, trans.amount) ELSE balance
             b2 == IF trans.recipient = address
                   THEN NumAdd(b1, trans.amount) ELSE b1
         IN  balance_loop(Tail(txs), address, b2)

get_balance(c, address) == balance_loop(Flatten(c), address, Int_(0))

RECURSIVE history_loop(_, _)
history_loop(txs, address) ==
    IF txs = <<>> THEN <<>>
    ELSE LET trans == Head(txs)
         IN  (IF trans.sender = address \/ trans.recipient = address
              THEN <<to_dict(trans)>> ELSE <<>>)
             \o history_loop(Tail(txs), address)

\* one append per matching test, as get_balance does its two updates
RECURSIVE history_loop_twice(_, _)
history_loop_twice(txs, address) ==
    IF txs = <<>> THEN <<>>
    ELSE LET trans == Head(txs)
         IN  (IF trans.sender = address THEN <<to_dict(trans)>> ELSE <<>>)
             \o (IF trans.recipient = address THEN <<to_dict(trans)>> ELSE <<>>)
             \o history_loop_twice(Tail(txs), address)

get_transaction_history_twice(c, address) == history_loop_twice(Flatten(c), address)

get_transaction_history(c, address) == history_loop(Flatten(c), address)

\* the loop of is_chain_valid from position i (1-based position i+1)
RECURSIVE valid_from(_, _)
valid_from(c, i) ==
    IF i >= Len(c) THEN TRUE
    ELSE LET current_block == c[i + 1]
             previous_block == c[i]
         IN  IF current_block.hash # calculate_hash(current_block) THEN FALSE
             ELSE IF current_block.previous_hash # previous_block.hash THEN FALSE
             ELSE valid_from(c, i + 1)

\* range(len(self.chain)) checking the stored hash of block 0 as well
is_chain_valid_with_genesis(c) ==
    IF c[1].hash # calculate_hash(c[1]) THEN FALSE ELSE valid_from(c, 1)

is_chain_valid(c) == valid_from(c, 1)

(* ----------------------- out-of-band mutation -------------------------- *)
\* tx.amount = amount on the Transaction object oid: every list that holds
\* the object sees the new amount; the object's stored hash is not recomputed
SetAmount(txs, oid, amount) ==
    [k \in 1..Len(txs) |->
        IF txs[k].oid = oid THEN [txs[k] EXCEPT !.amount = amount] ELSE txs[k]]

\* chain[i].transactions[j].amount = amount, with no re-mining
TamperAmount(i, j, amount) ==
    /\ tamper = "none"
    /\ i \in 1..Len(chain)
    /\ j \in 1..Len(chain[i].transactions)
    /\ amount # chain[i].transactions[j].amount
    /\ LET oid == chain[i].transactions[j].oid
       IN  /\ chain' = [b \in 1..Len(chain) |->
                          [chain[b] EXCEPT
                             !.transactions = SetAmount(@, oid, amount)]]
           /\ pending_transactions' = SetAmount(pending_transactions, oid, amount)
    /\ tamper' = "amount"
    /\ ret' = None
    /\ UNCHANGED <<nft_collections, now, next_oid, threads, atomic>>

\* the digests a tamperer can copy from the ledger
KnownDigests == {chain[b].hash : b \in 1..Len(chain)} \cup {ZeroString}

\* chain[i] = b, or b with b.hash = b.calculate_hash() when rehash: a block
\* rewritten from outside, without proof of work
ReplaceBlock(i, b, rehash) ==
    /\ tamper = "none"
    /\ i \in 1..Len(chain)
    /\ LET b2 == IF rehash THEN [b EXCEPT !.hash = calculate_hash(b)] ELSE b
       IN  /\ b2 # chain[i]
           /\ chain' = [chain EXCEPT ![i] = b2]
    /\ tamper' = "block"
    /\ ret' = None
    /\ UNCHANGED <<pending_transactions, nft_collections, now, next_oid, threads, atomic>>

NumberFields == {"index", "timestamp", "nonce"}

\* chain[i].index = n, chain[i].timestamp = n or chain[i].nonce = n
TamperNumber(i, field, n, rehash) ==
    /\ i \in 1..Len(chain)
    /\ ReplaceBlock(i,
                    CASE field = "index" -> [chain[i] EXCEPT !.index = n]
                      [] field = "timestamp" -> [chain[i] EXCEPT !.timestamp = n]
                      [] field = "nonce" -> [chain[i] EXCEPT !.nonce = n],
                    rehash)

DigestFields == {"previous_hash", "hash"}

\* chain[i].previous_hash = h or chain[i].hash = h
TamperDigest(i, field, h, rehash) ==
    /\ i \in 1..Len(chain)
    /\ ReplaceBlock(i,
                    CASE field = "previous_hash" -> [chain[i] EXCEPT !.previous_hash = h]
                      [] field = "hash" -> [chain[i] EXCEPT !.hash = h],
                    rehash)

\* chain[i].transactions = []
TamperTransactions(i, rehash) ==
    /\ i \in 1..Len(chain)
    /\ ReplaceBlock(i, [chain[i] EXCEPT !.transactions = <<>>], rehash)

(* ---------------------------- specification ---------------------------- *)
Next ==
    \/ \E s, r \in Addresses, a \in Amounts : CreateTransaction(s, r, a)
    \/ \E tx \in CallerPayments : ResubmitTransaction(tx)
    \/ \E R \in Addresses : MinePendingTransactions(R)
    \/ \E o \in Addresses, id \in NftIds, n \in NftNames, d \in NftDescriptions :
          CreateNft(o, id, n, d)
    \/ \E s, r \in Addresses, id \in NftIds : TransferNft(s, r, id)

Spec == Init /\ [][Next]_vars

\* the ledger driven by one payer, followed by one out-of-band mutation
TamperAmounts == Amounts \cup {Int_(0), Int_(mining_reward)}

TamperNext ==
    \/ \E r \in Addresses, a \in Amounts : CreateTransaction("Alice", r, a)
    \/ \E tx \in CallerPayments : ResubmitTransaction(tx)
    \/ MinePendingTransactions("Bob")
    \/ \E i \in 1..MaxChain, j \in 1..(MaxTx + 1), a \in TamperAmounts :
          TamperAmount(i, j, a)
    \/ \E i \in 1..MaxChain, field \in NumberFields, n \in 0..MaxChain,
          rehash \in BOOLEAN :
          TamperNumber(i, field, n, rehash)
    \/ \E i \in 1..MaxChain, field \in DigestFields, rehash \in BOOLEAN :
          \E h \in KnownDigests : TamperDigest(i, field, h, rehash)
    \/ \E i \in 1..MaxChain, rehash \in BOOLEAN : TamperTransactions(i, rehash)

SpecTamper == Init /\ [][TamperNext]_vars

\* the registry with two assets, one payer and one miner
AssetNext ==
    \/ \E r \in Addresses : CreateTransaction("Alice", r, Float_(1))
    \/ MinePendingTransactions("Bob")
    \/ \E o \in Addresses, id \in AssetIds, n \in NftNames, d \in NftDescriptions :
          CreateAsset(o, id, n, d)
    \/ \E s, r \in Addresses, id \in AssetIds : TransferAsset(s, r, id)

SpecAssets == Init /\ [][AssetNext]_vars

\* callers of Block.mine_block, on blocks they constructed or mined before
InitMine ==
    /\ ZenChain_init
    /\ threads = [t \in Threads |-> AtRest]
    /\ atomic = TRUE

MineNext ==
    \/ \E t \in Threads, d \in 0..difficulty :
          \E b \in MineBlocks \cup
                   (IF "block" \in DOMAIN threads[t] THEN {threads[t].block} ELSE {}) :
             MineBlockCall(t, b, d)
    \/ \E t \in Threads : MineBlockStep(t)

\* a thread in the loop goes on: nothing but the loop's own exit stops it
SpecMine ==
    InitMine /\ [][MineNext]_vars /\ \A t \in Threads : WF_vars(MineBlockStep(t))

\* one thread takes an asset through its lifecycle, for every choice of the
\* four addresses, while the ledger is mined
InitLifecycle ==
    /\ ZenChain_init
    /\ atomic = TRUE
    /\ \E owner, owner2, recipient, someoneElse \in Addresses, name, name2 \in NftNames :
          threads = [t \in Threads |->
                        IF t = 1
                        THEN [pc |-> "lifecycle", calls |-> 0, ret |-> None,
                              owner |-> owner, owner2 |-> owner2,
                              recipient |-> recipient, someoneElse |-> someoneElse,
                              name |-> name, name2 |-> name2, rets |-> <<>>]
                        ELSE AtRest]

LifecycleNext ==
    \/ \E t \in Threads : LifecycleStep(t)
    \/ MinePendingTransactions("Bob")

SpecLifecycle == InitLifecycle /\ [][LifecycleNext]_vars

\* two threads that mine and transfer "X", one call at a time (atomic) or
\* step by step, after a creation of "X" made while both are at rest
InitThreads ==
    /\ ZenChain_init
    /\ threads = [t \in Threads |-> AtRest]
    /\ atomic \in BOOLEAN

ThreadsNext ==
    \/ \E o \in Addresses :
          (\A u \in Threads : Resting(u)) /\ CreateNft(o, "X", "n1", "d")
    \/ \E t \in Threads : MineBuild(t, "Bob")
    \/ \E t \in Threads : MineAppend(t)
    \/ \E t \in Threads : MineReset(t)
    \/ \E t \in Threads, s, r \in Addresses : TransferCheck(t, s, r, "X")
    \/ \E t \in Threads : TransferAct(t)

SpecThreads == InitThreads /\ [][ThreadsNext]_vars

(* ------------------------------- claims -------------------------------- *)
Linked(c, i) == c[i].previous_hash = c[i - 1].hash
Sealed(c, i) == c[i].hash = calculate_hash(c[i])

\* C1: under the ledger's own operations every block after the genesis block
\* is linked to the stored hash of its predecessor and stores the hash of its
\* current fields, and is_chain_valid() returns True.
C1_ChainValid ==
    /\ is_chain_valid(chain)
    /\ \A i \in 2..Len(chain) : Linked(chain, i) /\ Sealed(chain, i)

C1_Witness ==
    /\ Len(chain) >= 3
    /\ \E k \in 1..Len(Committed) :
          /\ Committed[k].nft_data # NoNft
          /\ Committed[k].nft_data.action = "transfer"

\* C2: once the amount of a committed transaction has been changed in place,
\* with the stored hashes and nonces left alone, is_chain_valid() returns False.
C2_TamperDetected == tamper = "amount" => ~is_chain_valid(chain)

C2_Witness ==
    /\ tamper = "amount"
    /\ Len(chain) >= 3
    /\ \E j \in 1..Len(chain[3].transactions) :
          /\ chain[3].transactions[j].sender # None
          /\ chain[3].transactions[j].hash
               # Transaction_calculate_hash(chain[3].transactions[j])

\* C3: is_chain_valid() returns True exactly when every block after the first
\* stores the hash of its current fields and the stored hash of its
\* predecessor; of block 0 only the stored hash matters, and neither the
\* block index nor the difficulty is looked at.
C3_ValidIffSealedAndLinked ==
    /\ is_chain_valid(chain)
          <=> \A i \in 2..Len(chain) : Sealed(chain, i) /\ Linked(chain, i)
    /\ is_chain_valid(chain)
          = is_chain_valid([chain EXCEPT
                              ![1] = [create_genesis_block EXCEPT
                                         !.hash = chain[1].hash]])

C3_Witness ==
    /\ tamper = "block"
    /\ is_chain_valid(chain)
    /\ \E i \in 2..Len(chain) :
          /\ chain[i].index # i - 1
          /\ Prefix(chain[i].hash, difficulty) # Zeros(difficulty)

\* C4: mine_pending_transactions appends exactly one block, whose index is the
\* chain length before the call, whose transactions are the pending pool before
\* the call and whose previous_hash is the stored hash of the former head; the
\* blocks already committed and the registry do not change.
C4_MineAppendsOneBlock ==
    [][\A R \in Addresses :
          MinePendingTransactions(R) =>
             /\ Len(chain') = Len(chain) + 1
             /\ SubSeq(chain', 1, Len(chain)) = chain
             /\ chain'[Len(chain')].index = Len(chain)
             /\ chain'[Len(chain')].transactions = pending_transactions
             /\ chain'[Len(chain')].previous_hash = chain[Len(chain)].hash
             /\ nft_collections' = nft_collections]_vars

C4_Witness ==
    /\ Len(chain) = 3
    /\ Len(chain[3].transactions) >= 2
    /\ chain[3].index = 2
    /\ DOMAIN nft_collections # {}

\* C5: right after mine_pending_transactions(R) the pending pool holds exactly
\* one transaction: sender None, recipient R, amount 100, no NFT data.
C5_RewardOnly ==
    [][\A R \in Addresses :
          MinePendingTransactions(R) =>
             /\ Len(pending_transactions') = 1
             /\ pending_transactions'[1].sender = None
             /\ pending_transactions'[1].recipient = R
             /\ pending_transactions'[1].amount = Int_(mining_reward)
             /\ pending_transactions'[1].nft_data = NoNft]_vars

C5_Witness ==
    /\ Len(chain) >= 2
    /\ Len(chain[Len(chain)].transactions) >= 2
    /\ Len(pending_transactions) = 1
    /\ pending_transactions[1].sender = None
    /\ pending_transactions[1].amount.v = mining_reward

\* in every state: the genesis block first, every index the block's position
C6_GenesisAndIndex ==
    /\ Len(chain) >= 1
    /\ chain[1].transactions = <<>>
    /\ chain[1].previous_hash = ZeroString
    /\ \A i \in 1..Len(chain) : chain[i].index = i - 1

\* in every step: the former chain is kept, and only mining adds to it
C6_PrefixStep ==
    /\ Len(chain') >= Len(chain)
    /\ SubSeq(chain', 1, Len(chain)) = chain
    /\ chain' # chain =>
          \E R \in Addresses : MinePendingTransactions(R)

\* C6: the chain is never empty and starts with the genesis block (no
\* transactions, previous hash "0"), every block's index is its position, every
\* step keeps the former chain as a prefix, and only mine_pending_transactions
\* changes the chain.
C6_AppendOnly == []C6_GenesisAndIndex /\ [][C6_PrefixStep]_vars

C6_Witness ==
    /\ Len(chain) = 3
    /\ chain[2].transactions # <<>>
    /\ pending_transactions # <<>>
    /\ ret = "True"

\* C7: every mined block stores the hash of its own index, transactions,
\* timestamp, previous hash and nonce, and that hash starts with difficulty
\* (2) characters '0'.
C7_ProofOfWork ==
    \A i \in 2..Len(chain) :
        /\ Sealed(chain, i)
        /\ Len(chain[i].hash.lead) >= difficulty
        /\ \A k \in 1..difficulty : chain[i].hash.lead[k] = 0

C7_Witness ==
    /\ Len(chain) >= 3
    /\ chain[2].nonce > 0
    /\ chain[3].nonce > 0
    /\ chain[2].nonce # chain[3].nonce

\* exact sums over the committed transactions
RECURSIVE Received(_, _)
Received(txs, a) ==
    IF txs = <<>> THEN 0
    ELSE (IF Head(txs).recipient = a THEN Head(txs).amount.v ELSE 0)
         + Received(Tail(txs), a)

RECURSIVE Sent(_, _)
Sent(txs, a) ==
    IF txs = <<>> THEN 0
    ELSE (IF Head(txs).sender = a THEN Head(txs).amount.v ELSE 0)
         + Sent(Tail(txs), a)

\* C8: get_balance(address) is the sum of the committed amounts received by
\* address minus the sum of the committed amounts sent by it; the pending pool
\* does not count, and a payment of an address to itself contributes nothing.
C8_BalanceIsNetSum ==
    \A a \in Addresses :
        get_balance(chain, a).v = Received(Committed, a) - Sent(Committed, a)

\* C9: when every committed transaction has its sender and its recipient in
\* Addresses (no reward or NFT creation committed), the balances of Addresses
\* sum to 0.
C9_BalancesSumToZero ==
    (\A k \in 1..Len(Committed) :
        Committed[k].sender \in Addresses /\ Committed[k].recipient \in Addresses)
    => get_balance(chain, "Alice").v + get_balance(chain, "Bob").v = 0

\* the committed transactions that involve a, as <<block, place in block>>
Involving(a) ==
    {p \in (1..Len(chain)) \X (1..(MaxTx + 1)) :
        /\ p[2] <= Len(chain[p[1]].transactions)
        /\ \/ chain[p[1]].transactions[p[2]].sender = a
           \/ chain[p[1]].transactions[p[2]].recipient = a}

\* the place of p among the committed transactions that involve a
Rank(a, p) ==
    Cardinality({q \in Involving(a) :
                    q[1] < p[1] \/ (q[1] = p[1] /\ q[2] <= p[2])})

\* C10: get_transaction_history(addr) holds one record per committed
\* transaction that has addr as sender or recipient (one, not two, when it is
\* both), in block order and then list order, and nothing else: no pending
\* transaction, no transaction of other addresses.
C10_HistoryComplete ==
    \A a \in Addresses \cup {None} :
        LET history == get_transaction_history(chain, a)
        IN  /\ Len(history) = Cardinality(Involving(a))
            /\ \A p \in Involving(a) :
                  history[Rank(a, p)] = to_dict(chain[p[1]].transactions[p[2]])

C10_Witness ==
    \E a \in Addresses :
        /\ Len(chain) = 3
        /\ Len(get_transaction_history(chain, a)) = 2
        /\ \E j \in 1..Len(chain[2].transactions) :
              /\ chain[2].transactions[j].sender = a
              /\ chain[2].transactions[j].recipient = a
        /\ \E j \in 1..Len(chain[3].transactions) :
              /\ chain[3].transactions[j].sender # a
              /\ chain[3].transactions[j].recipient # a
        /\ \E j \in 1..Len(chain[3].transactions) :
              /\ chain[3].transactions[j].sender # a
              /\ chain[3].transactions[j].recipient = a
        /\ \E j \in 1..Len(pending_transactions) :
              /\ pending_transactions[j].recipient = a
              /\ to_dict(pending_transactions[j])
                   \notin Range(get_transaction_history(chain, a))

\* the last entry of a pool
LastOf(pool) == pool[Len(pool)]
\* pool q is pool p with exactly one entry appended
OneAppended(p, q) == Len(q) = Len(p) + 1 /\ SubSeq(q, 1, Len(p)) = p

\* C11: create_nft returns False exactly when the id is already registered,
\* and then leaves registry, pool and chain as they were (the entry keeps its
\* owner and metadata); a successful call adds exactly the entry id -> owner,
\* keeps every other entry, and appends exactly one transaction at the end of
\* the pool: sender None, recipient the owner, amount 0, a "create" payload
\* with the id, the name and the description.
C11_CreateNft ==
    [][\A o \in Addresses, id \in AssetIds, n \in NftNames, d \in NftDescriptions :
          CreateAsset(o, id, n, d) =>
             /\ ret' \in {"True", "False"}
             /\ (ret' = "False") <=> (id \in DOMAIN nft_collections)
             /\ chain' = chain
             /\ ret' = "False" =>
                   /\ nft_collections' = nft_collections
                   /\ pending_transactions' = pending_transactions
             /\ ret' = "True" =>
                   /\ DOMAIN nft_collections' = DOMAIN nft_collections \cup {id}
                   /\ \A k \in DOMAIN nft_collections :
                         nft_collections'[k] = nft_collections[k]
                   /\ nft_collections'[id].owner = o
                   /\ OneAppended(pending_transactions, pending_transactions')
                   /\ LastOf(pending_transactions').sender = None
                   /\ LastOf(pending_transactions').recipient = o
                   /\ LastOf(pending_transactions').amount = Int_(0)
                   /\ LastOf(pending_transactions').nft_data = CreateData(id, n, d)
      ]_vars

\* a second asset has just been registered next to the first one
C11_Witness ==
    /\ ret = "True"
    /\ DOMAIN nft_collections = AssetIds
    /\ pending_transactions # <<>>
    /\ LastOf(pending_transactions).nft_data \in
          {CreateData(id, n, d) : id \in AssetIds, n \in NftNames, d \in NftDescriptions}
    /\ nft_collections[LastOf(pending_transactions).nft_data.nft_id].owner
          = LastOf(pending_transactions).recipient

\* C12: transfer_nft returns False exactly when the id is not registered or
\* its registered owner is not the sender, and then leaves registry, pool and
\* chain as they were; a successful call sets the owner of that entry to the
\* recipient, keeps its other fields and every other entry, and appends
\* exactly one transaction at the end of the pool: the sender, the recipient,
\* amount 0, a "transfer" payload with the id.
C12_TransferNft ==
    [][\A s, r \in Addresses, id \in AssetIds :
          TransferAsset(s, r, id) =>
             /\ ret' \in {"True", "False"}
             /\ (ret' = "False") <=>
                   (id \notin DOMAIN nft_collections \/ nft_collections[id].owner # s)
             /\ chain' = chain
             /\ ret' = "False" =>
                   /\ nft_collections' = nft_collections
                   /\ pending_transactions' = pending_transactions
             /\ ret' = "True" =>
                   /\ nft_collections' = [nft_collections EXCEPT ![id].owner = r]
                   /\ DOMAIN nft_collections' = DOMAIN nft_collections
                   /\ \A k \in DOMAIN nft_collections \ {id} :
                         nft_collections'[k] = nft_collections[k]
                   /\ nft_collections'[id].owner = r
                   /\ nft_collections'[id].name = nft_collections[id].name
                   /\ nft_collections'[id].description = nft_collections[id].description
                   /\ nft_collections'[id].created_at = nft_collections[id].created_at
                   /\ OneAppended(pending_transactions, pending_transactions')
                   /\ LastOf(pending_transactions').sender = s
                   /\ LastOf(pending_transactions').recipient = r
                   /\ LastOf(pending_transactions').amount = Int_(0)
                   /\ LastOf(pending_transactions').nft_data = TransferData(id)
      ]_vars

\* one of two registered assets has just changed hands
C12_Witness ==
    /\ ret = "True"
    /\ DOMAIN nft_collections = AssetIds
    /\ pending_transactions # <<>>
    /\ LastOf(pending_transactions).nft_data \in {TransferData(id) : id \in AssetIds}
    /\ LastOf(pending_transactions).sender # LastOf(pending_transactions).recipient
    /\ nft_collections[LastOf(pending_transactions).nft_data.nft_id].owner
          = LastOf(pending_transactions).recipient

\* every entry of the ledger, committed ones first, then the pool
Ledger == Committed \o pending_transactions

\* C14: a registry entry is never removed, and it changes only by a
\* transfer_nft call that returns True and whose sender is the owner before
\* the call, which alters nothing but the owner; create_transaction,
\* mine_pending_transactions, create_nft and failed transfers leave every
\* existing entry as it is, so a registered id is never registered again.
C14_OwnershipChange ==
    [][/\ \A id \in DOMAIN nft_collections :
            /\ id \in DOMAIN nft_collections'
            /\ nft_collections'[id] # nft_collections[id] =>
                  /\ ret' = "True"
                  /\ \E r \in Addresses :
                        /\ TransferAsset(nft_collections[id].owner, r, id)
                        /\ nft_collections'[id] =
                              [nft_collections[id] EXCEPT !.owner = r]
       /\ \A id \in DOMAIN nft_collections :
            (\/ \E r \in Addresses : CreateTransaction("Alice", r, Float_(1))
             \/ MinePendingTransactions("Bob")
             \/ \E o \in Addresses, k \in AssetIds, n \in NftNames,
                   d \in NftDescriptions : CreateAsset(o, k, n, d)
             \/ \E s, r \in Addresses, k \in AssetIds :
                   TransferAsset(s, r, k) /\ ret' = "False")
               => nft_collections'[id] = nft_collections[id]
      ]_vars

\* an asset is owned by somebody else than its creator, and the last call
\* on the registry was refused
C14_Witness ==
    /\ ret = "False"
    /\ Len(chain) > 1
    /\ \E id \in DOMAIN nft_collections : \E i \in 1..Len(Ledger) :
          /\ Ledger[i].nft_data \in
                {CreateData(id, n, d) : n \in NftNames, d \in NftDescriptions}
          /\ Ledger[i].recipient # nft_collections[id].owner

\* C15: create_transaction appends the given transaction at the end of the
\* pool and changes neither the chain nor the registry, whatever the
\* committed balance of the sender is: no call is refused or altered for
\* lack of funds, also not when the same object is submitted again.
C15_NoBalanceCheck ==
    [][/\ \A s, r \in Addresses, a \in Amounts :
            CreateTransaction(s, r, a) =>
               /\ OneAppended(pending_transactions, pending_transactions')
               /\ LastOf(pending_transactions').sender = s
               /\ LastOf(pending_transactions').recipient = r
               /\ LastOf(pending_transactions').amount = a
               /\ LastOf(pending_transactions').nft_data = NoNft
               /\ chain' = chain
               /\ nft_collections' = nft_collections
       /\ \A tx \in CallerPayments :
            ResubmitTransaction(tx) =>
               /\ pending_transactions' = Append(pending_transactions, tx)
               /\ chain' = chain
               /\ nft_collections' = nft_collections
      ]_vars

\* a payment of a sender who had received nothing has been mined, and the
\* sender's balance is negative
C15_Witness ==
    /\ Len(chain) > 1
    /\ \E s \in Addresses :
          /\ get_balance(chain, s).v < 0
          /\ Received(Committed, s) = 0

\* C17: no entry of the ledger is lost or duplicated: at every call but
\* mine_pending_transactions the pool keeps its entries in their order and
\* only grows at its end, mine_pending_transactions commits exactly the pool
\* in the one block it appends, and no Transaction object is ever held twice,
\* be it by two blocks, twice by the pool, or by the pool and a block.
C17_NoLossNoDuplication ==
    /\ [](\A i, j \in 1..Len(Ledger) : i # j => Ledger[i].oid # Ledger[j].oid)
    /\ [][/\ chain' = chain =>
               /\ Len(pending_transactions') >= Len(pending_transactions)
               /\ SubSeq(pending_transactions', 1, Len(pending_transactions))
                     = pending_transactions
          /\ chain' # chain =>
               /\ Len(chain') = Len(chain) + 1
               /\ SubSeq(chain', 1, Len(chain)) = chain
               /\ chain'[Len(chain')].transactions = pending_transactions
         ]_vars

\* how many times ledger l holds the Transaction object oid
Copies(l, oid) == Cardinality({i \in 1..Len(l) : l[i].oid = oid})

\* C17, amended: the pool only grows at its end until the next
\* mine_pending_transactions call, which commits exactly the pool in the one
\* block it appends; no object is ever dropped, and an object the ledger
\* holds gets a further copy only by a caller passing it to
\* create_transaction again, which appends it once more, so that it may be
\* held by the pool and a block at once and be committed in a second block.
C17_DuplicatedOnlyByResubmission ==
    [][/\ chain' = chain =>
            /\ Len(pending_transactions') >= Len(pending_transactions)
            /\ SubSeq(pending_transactions', 1, Len(pending_transactions))
                  = pending_transactions
       /\ chain' # chain =>
            /\ Len(chain') = Len(chain) + 1
            /\ SubSeq(chain', 1, Len(chain)) = chain
            /\ chain'[Len(chain')].transactions = pending_transactions
       /\ \A oid \in 1..next_oid :
            /\ Copies(Ledger', oid) >= Copies(Ledger, oid)
            /\ (Copies(Ledger, oid) > 0 /\ Copies(Ledger', oid) > Copies(Ledger, oid)) =>
                  /\ Copies(Ledger', oid) = Copies(Ledger, oid) + 1
                  /\ \E tx \in CallerPayments :
                        tx.oid = oid /\ ResubmitTransaction(tx)
      ]_vars

\* an object submitted twice sits in two blocks
C17_Witness ==
    \E i, j \in 1..Len(chain) :
       /\ i < j
       /\ \E tx \in Range(chain[i].transactions) :
             \E ty \in Range(chain[j].transactions) : tx.oid = ty.oid

\* the asset-action entries (create or transfer) for id in ledger l, in order
AssetTxs(l, id) ==
    SelectSeq(l, LAMBDA tx : tx.nft_data # NoNft /\ tx.nft_data.nft_id = id)
\* the owner of id that ledger l alone tells: the recipient of its last action
DerivedOwner(l, id) ==
    IF AssetTxs(l, id) = <<>> THEN None ELSE LastOf(AssetTxs(l, id)).recipient
\* the owner of id in registry reg
RegistryOwner(reg, id) == IF id \in DOMAIN reg THEN reg[id].owner ELSE None
\* the "create" entries for id in ledger l
CreateTxs(l, id) ==
    SelectSeq(AssetTxs(l, id), LAMBDA tx : tx.nft_data.action = "create")

\* C18: with create_transaction used for payments only, in every state the
\* registered owner of an id is the recipient of the last asset action for it
\* in the committed chain followed by the pool, a registered id has exactly
\* one "create" entry there and an unregistered id has no entry; the registry
\* differs from what the committed blocks alone tell only for ids with an
\* asset action still pending, and right after mine_pending_transactions the
\* committed blocks alone tell every owner.
C18_RegistryMatchesLedger ==
    /\ [](\A id \in AssetIds :
            /\ RegistryOwner(nft_collections, id) = DerivedOwner(Ledger, id)
            /\ id \in DOMAIN nft_collections => Len(CreateTxs(Ledger, id)) = 1
            /\ id \notin DOMAIN nft_collections => AssetTxs(Ledger, id) = <<>>
            /\ AssetTxs(pending_transactions, id) = <<>> =>
                  RegistryOwner(nft_collections, id) = DerivedOwner(Committed, id))
    /\ [][MinePendingTransactions("Bob") =>
            \A id \in AssetIds :
               RegistryOwner(nft_collections', id) = DerivedOwner(Flatten(chain'), id)
         ]_vars

\* the creation and a transfer of one asset are committed, and the registry
\* is ahead of the chain by the pending creation of the other
C18_Witness ==
    \E id, other \in DOMAIN nft_collections :
       /\ Len(AssetTxs(Committed, id)) = 2
       /\ AssetTxs(pending_transactions, id) = <<>>
       /\ AssetTxs(Committed, other) = <<>>
       /\ Len(AssetTxs(pending_transactions, other)) = 1

\* the sum of the amounts of the transactions of txs that have no sender
RECURSIVE Minted(_)
Minted(txs) ==
    IF txs = <<>> THEN 0
    ELSE (IF Head(txs).sender = None THEN Head(txs).amount.v ELSE 0)
         + Minted(Tail(txs))

\* after n >= 1 calls mine_pending_transactions(R) and nothing else,
\* get_balance(R) is (n - 1) * mining_reward
C20_MiningOnly ==
    \A R \in Addresses :
       (/\ Len(chain) > 1
        /\ nft_collections = [k \in {} |-> None]
        /\ \A i \in 1..Len(Ledger) :
              /\ Ledger[i].sender = None
              /\ Ledger[i].recipient = R
              /\ Ledger[i].amount = Int_(mining_reward))
       => get_balance(chain, R) = Int_((Len(chain) - 2) * mining_reward)

\* C20: the reward of a mining call is credited by the next mining call: on a
\* fresh ledger, after n >= 1 calls mine_pending_transactions(R) and nothing
\* else, get_balance(R) is (n - 1) * 100; and in every state the balances of
\* all addresses sum to the sum of the amounts of the committed transactions
\* without sender.
C20_RewardLag ==
    /\ C20_MiningOnly
    /\ get_balance(chain, "Alice").v + get_balance(chain, "Bob").v
          = Minted(Committed)

\* the hash of block b has d leading '0' characters
ProofOfWork(b, d) == Prefix(b.hash, d) = Zeros(d)
\* block b with nonce n and the hash of that
WithNonce(b, n) ==
    LET b1 == [b EXCEPT !.nonce = n] IN [b1 EXCEPT !.hash = calculate_hash(b1)]
\* thread t has returned from a call of mine_block
Mined(t) == Resting(t) /\ "block" \in DOMAIN threads[t]

\* C16: a step of mine_block(d) either finds d leading '0' characters in the
\* hash and returns, leaving the block as it is, or adds 1 to the nonce and
\* recomputes the hash, staying in the loop; the block it returns has the
\* least nonce from the starting one on whose hash has d leading '0'
\* characters, and only its nonce and hash differ from the given block; with
\* d = 0 it returns the given block unchanged (nonce 0 for a new block); and
\* a call always returns when some nonce from the starting one on gives such
\* a hash.
C16_MineBlock ==
    /\ [][\A t \in Threads :
             MineBlockStep(t) =>
                LET b == threads[t].block
                    d == threads[t].difficulty
                IN  IF ProofOfWork(b, d)
                    THEN threads'[t].pc = "idle" /\ threads'[t].block = b
                    ELSE /\ threads'[t].pc = "mine_block"
                         /\ threads'[t].block = WithNonce(b, b.nonce + 1)
         ]_vars
    /\ [](\A t \in Threads :
             Mined(t) =>
                LET g == threads[t].given
                    b == threads[t].block
                    d == threads[t].difficulty
                IN  /\ ProofOfWork(b, d)
                    /\ b.nonce >= g.nonce
                    /\ b = [g EXCEPT !.nonce = b.nonce, !.hash = b.hash]
                    /\ b.hash = calculate_hash(b)
                    /\ \A n \in g.nonce..(b.nonce - 1) : ~ProofOfWork(WithNonce(g, n), d)
                    /\ d = 0 => b = g
                    /\ (d = 0 /\ g \in MineBlocks) => b.nonce = 0
                    /\ b = mine_block(g, d))
    /\ \A t \in Threads :
          (/\ threads[t].pc = "mine_block"
           /\ \E n \in 0..HashSpace :
                 ProofOfWork(WithNonce(threads[t].block, threads[t].block.nonce + n),
                             threads[t].difficulty))
             ~> Mined(t)

\* a search with the ledger's difficulty has ended after several rounds
C16_Witness ==
    \E t \in Threads :
       /\ Mined(t)
       /\ threads[t].difficulty = difficulty
       /\ threads[t].given \in MineBlocks
       /\ threads[t].block.nonce > threads[t].given.nonce + 1

\* the thread that runs the asset lifecycle has made n calls
Made(t, n) == threads[t].pc = "lifecycle" /\ Len(threads[t].rets) >= n
JustMade(t, n) == threads[t].pc = "lifecycle" /\ Len(threads[t].rets) = n

\* the first three calls of the lifecycle: the creation by owner succeeds,
\* the creation by owner2 fails and leaves owner registered, the transfer by
\* owner succeeds and registers recipient
LifecycleBegins(t) ==
    /\ Made(t, 1) => threads[t].rets[1] = "True"
    /\ Made(t, 2) => threads[t].rets[2] = "False"
    /\ JustMade(t, 2) => nft_collections["X"].owner = threads[t].owner
    /\ Made(t, 3) => threads[t].rets[3] = "True"
    /\ JustMade(t, 3) => nft_collections["X"].owner = threads[t].recipient

\* C13: for all owner, owner2, recipient, someoneElse and an unregistered
\* "X": create_nft(owner, "X") succeeds, create_nft(owner2, "X") fails with
\* owner still registered, transfer_nft(owner, recipient, "X") succeeds and
\* registers recipient, and a following transfer_nft(owner, someoneElse, "X")
\* fails.
C13_Lifecycle ==
    \A t \in Threads :
       /\ LifecycleBegins(t)
       /\ Made(t, 4) => threads[t].rets[4] = "False"

\* C13, amended: the same, but the last transfer fails exactly when recipient
\* is not owner; after a transfer of owner to itself owner is still the
\* registered owner, the last transfer succeeds and registers someoneElse.
C13_LifecycleStaleOwner ==
    \A t \in Threads :
       /\ LifecycleBegins(t)
       /\ Made(t, 4) =>
             /\ threads[t].rets[4] = "False" <=> threads[t].recipient # threads[t].owner
             /\ nft_collections["X"].owner =
                   IF threads[t].recipient # threads[t].owner
                   THEN threads[t].recipient ELSE threads[t].someoneElse

\* the four calls are made, with a recipient that is not the owner and a
\* second creator that is not the first
C13_Witness ==
    \E t \in Threads :
       /\ Made(t, 4)
       /\ threads[t].rets = <<"True", "False", "True", "False">>
       /\ threads[t].recipient # threads[t].owner
       /\ threads[t].owner2 # threads[t].owner
       /\ nft_collections["X"].owner = threads[t].recipient

\* every transfer of id in ledger l was made by the owner of the time: the
\* first action for id is its creation, and each later one is sent by the
\* recipient of the action before it
OwnershipChain(l, id) ==
    LET a == AssetTxs(l, id)
    IN  /\ a # <<>>
        /\ a[1].nft_data.action = "create"
        /\ \A k \in 2..Len(a) :
              a[k].nft_data.action = "transfer" /\ a[k].sender = a[k - 1].recipient

\* two blocks of the chain with one index and one previous hash
ForkedAt(i, j) ==
    /\ i < j
    /\ chain[i].index = chain[j].index
    /\ chain[i].previous_hash = chain[j].previous_hash

\* C19: when the callers run one call at a time (one mutual-exclusion
\* domain), then between calls, whatever the order of the calls, the chain
\* is valid, block i has index i, no transaction is committed twice, and
\* every asset has one line of owners: each transfer was made by the owner
\* of the time, the last recipient being the registered owner.  (Without
\* that, two mine_pending_transactions calls can read one chain length and
\* head hash and append two blocks with one index and previous hash and the
\* same transactions, and two transfer_nft calls of one owner can both pass
\* the owner test and return True: the witness.)
C19_AtomicCallsKeepLedger ==
    (atomic /\ \A u \in Threads : Resting(u)) =>
       /\ is_chain_valid(chain)
       /\ \A i \in 1..Len(chain) : chain[i].index = i - 1
       /\ \A i, j \in 1..Len(Ledger) : i # j => Ledger[i].oid # Ledger[j].oid
       /\ \A id \in DOMAIN nft_collections :
             /\ OwnershipChain(Ledger, id)
             /\ nft_collections[id].owner = DerivedOwner(Ledger, id)

\* with steps interleaved: two blocks with one index and one previous hash
\* that hold the same transaction, the chain invalid, and both threads
\* returned True from transfers of "X" that the same owner sent
C19_Witness ==
    /\ ~atomic
    /\ \A u \in Threads : Resting(u) /\ threads[u].ret = "True"
    /\ ~is_chain_valid(chain)
    /\ \E i, j \in 1..Len(chain) :
          /\ ForkedAt(i, j)
          /\ \E tx \in Range(chain[i].transactions) :
                \E ty \in Range(chain[j].transactions) : tx.oid = ty.oid
    /\ \E k \in 2..Len(AssetTxs(Ledger, "X")) :
          /\ AssetTxs(Ledger, "X")[k].nft_data.action = "transfer"
          /\ AssetTxs(Ledger, "X")[k - 1].nft_data.action = "transfer"
          /\ AssetTxs(Ledger, "X")[k].sender = AssetTxs(Ledger, "X")[k - 1].sender
          /\ AssetTxs(Ledger, "X")[k].sender # AssetTxs(Ledger, "X")[k - 1].recipient
====
